---- MODULE Spec2Model ----
(***************************************************************************)
(* The cross-posting pipeline of main.py: the interval scheduler, the      *)
(* ledger of processed videos, and the per-video pipeline                  *)
(* download -> send_video -> save_processed_video, with the failure        *)
(* handlers.  One action is one run of a coroutine between two suspension  *)
(* points of the asyncio event loop (an awaited network call, an executor  *)
(* thread, a sleep): everything the code does synchronously in between is  *)
(* part of the same action.                                                *)
(***************************************************************************)
EXTENDS Integers, Sequences, FiniteSets, Bags, TLC

\* ---------------------------------------------------------------- bounds
NumIds == 2          \* distinct videos the source knows
MaxResults == 2      \* candidates in one search result
MaxItems == 2        \* candidates returned by all searches of a run
MaxInitLog == 1      \* lines of the ledger file found at startup
MaxSaves == 4        \* save_processed_video calls on the ledger text
MaxEnters == 4       \* process_videos instances that enter the client block

\* ------------------------------------------------------ program constants

\* A job registered with room for one more instance.
MaxInstancesLoose == 3 + 1

max_instances == 3
MAX_FILE_SIZE_MB == 50
NumChannels == 2
retries == 3

Owners == {"100"}
Ids == 1..NumIds
Channels == 1..NumChannels

\* A candidate as _enrich_video_data returns it (the fields the pipeline reads).
Videos == [owner_id : Owners, id : Ids]

\* video_id = f"{video['owner_id']}_{video['id']}": the pair stands for the
\* string "<owner>_<id>".
VideoId(video) == <<video.owner_id, video.id>>

VideoIds == {VideoId(v) : v \in Videos}

\* What yt-dlp produces for a video: its size in MB and its container.
Media == { [size |-> 5, ext |-> "mp4"], [size |-> 80, ext |-> "mp4"],
           [size |-> 20, ext |-> "webm"] }

SUPPORTED_VIDEO_FORMATS == {"mp4", "mov", "mkv"}

Range(seq) == {seq[k] : k \in 1..Len(seq)}

SeqsUpTo(S, n) == UNION {[1..k -> S] : k \in 0..n}

VARIABLES
    DELETE_LOCAL_COPY,   \* config.py flag, fixed for a run
    media,               \* environment: what a download of each video yields
    fsFaults,            \* environment: may file operations fail in this run
    ledgerFile,          \* lines of PROCESSED_VIDEOS_FILE
    ledgerExists,        \* does PROCESSED_VIDEOS_FILE exist
    processed_videos,    \* ApplicationState.processed_videos
    is_running,          \* ApplicationState.is_running
    phase,               \* "new", "started", "stopped" (main() returned)
    sd,                  \* the shutdown() task
    itemsLeft,           \* candidates the searches may still return
    sweeps,              \* the running process_videos instances (a bag)
    disk,                \* video ids whose artifact is in DOWNLOAD_PATH
    sendCalls,           \* history: send_video invocations per video id
    firstGood,           \* history: ids whose first send_video delivered and was recorded
    ended,               \* history: the item pipeline the last step ended
    swept,               \* history: the sweep the last step ended
    tick,                \* history: what the last step did with a scheduler tick
    locksMade,           \* asyncio.Lock objects the ledger methods created (0, 1, many)
    loaded,              \* history: how load_processed_videos ended at startup
    limited,             \* history: what the last step did with a rate-limit answer to an upload
    st,                  \* a send_text call run on its own (SpecSendText)
    rt,                  \* a ledger file written and read back as text (SpecLedger)
    cl                   \* the shared clients and the instances in their block (SpecClients)

vars == <<DELETE_LOCAL_COPY, media, fsFaults, ledgerFile, ledgerExists,
          processed_videos, is_running, phase, sd, itemsLeft, sweeps,
          disk, sendCalls, firstGood, ended, swept, tick, locksMade,
          loaded, limited, st, rt, cl>>

\* A process_videos instance as the scheduler starts it.
NewSweep ==
    [pc |-> "searching", videos |-> <<>>, idx |-> 0, chan |-> 0,
     res |-> "none", msgs |-> 0, dl |-> 0, send |-> 0, first |-> FALSE,
     known |-> FALSE, led0 |-> {}, solo |-> FALSE, texts |-> 0]

NoEnded ==
    [valid |-> FALSE, id |-> <<>>, fetch |-> "none", sent |-> FALSE,
     raised |-> FALSE, receipts |-> 0, recorded |-> FALSE,
     inSet |-> FALSE, inLog |-> FALSE, onDisk |-> FALSE, tried |-> 0,
     notices |-> 0, noticeFailed |-> FALSE]

NoSwept ==
    [valid |-> FALSE, videos |-> <<>>, led0 |-> {}, dl |-> 0, send |-> 0,
     solo |-> FALSE, ledgerEnd |-> {}, logEnd |-> {}, last |-> NoEnded,
     idx |-> 0, res |-> "none"]

\* No upload was answered with RetryAfter in the last step.
NoLimited == [valid |-> FALSE, chan |-> 0, slept |-> FALSE, next |-> 0]

\* No send_text call is being followed.
StIdle == [pc |-> "idle"]

\* No ledger text is being followed.
RtIdle == [pc |-> "idle"]

\* The scheduler's instance slots of the process_videos job.
Slots == 1..max_instances

\* Application.__init__: the parser has no session yet, the bot has not
\* been closed, and no process_videos instance is inside its `async with`.
ClNew ==
    [inst |-> [i \in Slots |-> [pc |-> "idle", own |-> 0]],
     session |-> 0, made |-> 0, closed |-> {}, botCloses |-> 0]

\* The instances the scheduler counts against max_instances.
Running == BagCardinality(sweeps)

\* The bag of sweeps with sweep s gone, and with s replaced by s2.
Without(s) == sweeps (-) SetToBag({s})

Replaced(s, s2) == Without(s) (+) SetToBag({s2})

Cur(r) == VideoId(r.videos[r.idx])

WriteErrors == IF fsFaults THEN BOOLEAN ELSE {FALSE}

\* ------------------------------------------------------------- the ledger

\* load_processed_videos that keeps what it read before the error.
LoadProcessedVideosPartial(exists, file, readError) ==
    IF exists THEN Range(file) ELSE {}

\* ApplicationState.load_processed_videos: set(content.splitlines()) of an
\* existing file; a missing file or a read error leaves the empty set.
LoadProcessedVideos(exists, file, readError) ==
    IF exists /\ ~readError THEN Range(file) ELSE {}

\* How load_processed_videos ended.
LoadOutcome(exists, readError) ==
    IF ~exists THEN "missing" ELSE IF readError THEN "error" ELSE "ok"

\* `async with asyncio.Lock()`: the call constructs a lock of its own,
\* acquires it (a new lock is free) and releases it at the end of the block.
OneMoreLock(made) == IF made = "none" THEN "one" ELSE "many"

\* save_processed_video that adds to the set before it opens the file.
SaveProcessedVideoInsertFirst(file, set, video_id, writeError) ==
    IF writeError
    THEN [file |-> file, set |-> set \cup {video_id}, wrote |-> FALSE]
    ELSE [file |-> Append(file, video_id), set |-> set \cup {video_id},
          wrote |-> TRUE]

\* save_processed_video that appends the line and forgets the set.
SaveProcessedVideoNoInsert(file, set, video_id, writeError) ==
    IF writeError
    THEN [file |-> file, set |-> set, wrote |-> FALSE]
    ELSE [file |-> Append(file, video_id), set |-> set, wrote |-> TRUE]

\* save_processed_video that opens the file with mode 'w'.
SaveProcessedVideoTruncating(file, set, video_id, writeError) ==
    IF writeError
    THEN [file |-> file, set |-> set, wrote |-> FALSE]
    ELSE [file |-> <<video_id>>, set |-> set \cup {video_id},
          wrote |-> TRUE]

\* ApplicationState.save_processed_video: append the line, then add to the
\* set; an error of open/write is logged and leaves both as they were.
SaveProcessedVideo(file, set, video_id, writeError) ==
    IF writeError
    THEN [file |-> file, set |-> set, wrote |-> FALSE]
    ELSE [file |-> Append(file, video_id), set |-> set \cup {video_id},
          wrote |-> TRUE]

\* ------------------------------------------------------------------ Init

InitPipeline ==
    /\ DELETE_LOCAL_COPY \in BOOLEAN
    /\ media \in [VideoIds -> Media]
    /\ ledgerExists \in BOOLEAN
    /\ ledgerFile \in SeqsUpTo(VideoIds, MaxInitLog)
    /\ (~ledgerExists => ledgerFile = <<>>)
    /\ processed_videos = {}
    /\ is_running = TRUE
    /\ phase = "new"
    /\ sd = [pc |-> "none", todo |-> {}]
    /\ itemsLeft = MaxItems
    /\ sweeps = EmptyBag
    /\ disk = {}
    /\ sendCalls = [i \in VideoIds |-> 0]
    /\ firstGood = {}
    /\ ended = NoEnded
    /\ swept = NoSwept
    /\ tick = "none"
    /\ locksMade = "none"
    /\ loaded = "none"
    /\ limited = NoLimited

InitCommon == InitPipeline /\ st = StIdle /\ rt = RtIdle /\ cl = ClNew

envVars == <<DELETE_LOCAL_COPY, media, fsFaults>>

\* A step that ends no item, ends no sweep, is no scheduler tick.
NoItemEnd == ended' = NoEnded

NoSweepEnd == swept' = NoSwept

NoTick == tick' = "none"

NoLimit == limited' = NoLimited

\* What every step of the pipeline leaves alone.
aside == <<loaded, st, rt, cl>>

ledgerVars == <<ledgerFile, ledgerExists, processed_videos, locksMade>>

Init == InitCommon /\ fsFaults = FALSE

InitFaults == InitCommon /\ fsFaults = TRUE

\* A run in which file operations may fail and every download yields a
\* small mp4.
InitLedgerFaults ==
    /\ InitFaults
    /\ media = [i \in VideoIds |-> [size |-> 5, ext |-> "mp4"]]

\* --------------------------------------------------------------- startup

\* Application.startup: load the ledger, register the job, start the
\* scheduler.
Startup ==
    /\ phase = "new"
    /\ \E readError \in WriteErrors :
          /\ processed_videos' =
                LoadProcessedVideos(ledgerExists, ledgerFile, readError)
          /\ loaded' = LoadOutcome(ledgerExists, readError)
    /\ locksMade' = IF ledgerExists THEN OneMoreLock(locksMade) ELSE locksMade
    /\ phase' = "started"
    /\ NoItemEnd /\ NoSweepEnd
    /\ UNCHANGED <<DELETE_LOCAL_COPY, media, fsFaults, ledgerFile,
                   ledgerExists, is_running, sd, itemsLeft, sweeps, disk,
                   sendCalls, firstGood>>
    /\ NoTick
    /\ NoLimit
    /\ UNCHANGED <<st, rt, cl>>

\* ------------------------------------------------- the loop of a sweep

\* The for loop without its membership test.
FirstUnknownNoSkip(videos, j, pv) == j

\* process_videos, lines 146-150: the first position from j on whose video
\* id is not in processed_videos (Len + 1 when there is none).
RECURSIVE FirstUnknown(_, _, _)
FirstUnknown(videos, j, pv) ==
    IF j > Len(videos) THEN j
    ELSE IF VideoId(videos[j]) \in pv THEN FirstUnknown(videos, j + 1, pv)
    ELSE j

\* process_videos returns (the for loop is over, or an exception reached its
\* except clauses): the instance is over.  s is the sweep as the step finds
\* it, r its record, pv and lf the ledger, e the last ended item as the step
\* leaves them.
SweepEnd(s, r, pv, lf, e) ==
    /\ sweeps' = Without(s)
    /\ swept' = [valid |-> TRUE, videos |-> r.videos, led0 |-> r.led0,
                 dl |-> r.dl, send |-> r.send, solo |-> r.solo,
                 ledgerEnd |-> pv, logEnd |-> Range(lf), last |-> e,
                 idx |-> r.idx, res |-> r.res]

\* The for loop of process_videos after the item at r.idx: skip the known
\* candidates, and for the first unknown one enter _process_single_video up
\* to its first suspension, the executor call of download().
Proceed(s, r, pv, lf, e) ==
    LET j == FirstUnknown(r.videos, r.idx + 1, pv) IN
    IF j > Len(r.videos)
    THEN SweepEnd(s, r, pv, lf, e)
    ELSE /\ sweeps' = Replaced(s,
                [r EXCEPT !.pc = "fetching", !.idx = j, !.dl = @ + 1,
                          !.chan = 0, !.res = "none",
                          !.msgs = 0, !.first = FALSE, !.texts = 0,
                          !.known = (VideoId(r.videos[j]) \in pv)])
         /\ NoSweepEnd

\* ------------------------------------------------------- scheduler ticks

\* The running sweeps, each marked as no longer the only one.
Overlapped(sw) ==
    [x \in {[y EXCEPT !.solo = FALSE] : y \in DOMAIN sw} |->
        CopiesIn(x, sw) + CopiesIn([x EXCEPT !.solo = TRUE], sw)]

SchedulerUp == phase = "started" /\ sd.pc \in {"none", "sched"}

\* The interval trigger fires and fewer than max_instances instances run:
\* process_videos starts, passes its is_running check, enters the async
\* with block and suspends in search_videos.
TickStart ==
    /\ SchedulerUp
    /\ Running < max_instances
    /\ is_running
    /\ sweeps' = Overlapped(sweeps)
                    (+) SetToBag({[NewSweep EXCEPT !.solo = (Running = 0)]})
    /\ NoItemEnd /\ NoSweepEnd
    /\ UNCHANGED <<envVars, ledgerVars, is_running, phase, sd, itemsLeft,
                   disk, sendCalls, firstGood>>
    /\ tick' = "started"
    /\ NoLimit
    /\ UNCHANGED aside

\* The trigger fires while max_instances instances run: the scheduler skips
\* the run.
TickDropped ==
    /\ SchedulerUp
    /\ Running = max_instances
    /\ NoItemEnd /\ NoSweepEnd
    /\ UNCHANGED <<envVars, ledgerVars, is_running, phase, sd, itemsLeft,
                   sweeps, disk, sendCalls, firstGood>>
    /\ tick' = "dropped"
    /\ NoLimit
    /\ UNCHANGED aside

\* The trigger fires after shutdown() cleared is_running and before the
\* scheduler stopped: process_videos returns at line 135.
TickNotRunning ==
    /\ SchedulerUp
    /\ Running < max_instances
    /\ ~is_running
    /\ NoItemEnd /\ NoSweepEnd
    /\ UNCHANGED <<envVars, ledgerVars, is_running, phase, sd, itemsLeft,
                   sweeps, disk, sendCalls, firstGood>>
    /\ tick' = "returned"
    /\ NoLimit
    /\ UNCHANGED aside

\* ----------------------------------------------------------------- search

Min(a, b) == IF a < b THEN a ELSE b

\* search_videos returns a list: the for loop starts.
SearchDone(s) ==
    /\ s.pc = "searching"
    /\ \E vs \in SeqsUpTo(Videos, Min(MaxResults, itemsLeft)) :
          /\ itemsLeft' = itemsLeft - Len(vs)
          /\ Proceed(s, [s EXCEPT !.videos = vs, !.idx = 0,
                                  !.led0 = processed_videos],
                     processed_videos, ledgerFile, NoEnded)
    /\ NoItemEnd
    /\ UNCHANGED <<envVars, ledgerVars, is_running, phase, sd, disk,
                   sendCalls, firstGood>>
    /\ NoTick
    /\ NoLimit
    /\ UNCHANGED aside

\* process_videos without its except clauses, in a process that dies of the
\* exception.
SearchFailedFatal(s) ==
    /\ s.pc = "searching"
    /\ SweepEnd(s, [s EXCEPT !.res = "VKParserError"], processed_videos,
                ledgerFile, NoEnded)
    /\ phase' = "stopped"
    /\ NoItemEnd
    /\ UNCHANGED <<envVars, ledgerVars, is_running, sd, itemsLeft,
                   disk, sendCalls, firstGood>>
    /\ NoTick
    /\ NoLimit
    /\ UNCHANGED aside

\* search_videos raises VKParserError: logged at line 155, the sweep ends.
SearchFailed(s) ==
    /\ s.pc = "searching"
    /\ SweepEnd(s, [s EXCEPT !.res = "VKParserError"], processed_videos,
                ledgerFile, NoEnded)
    /\ NoItemEnd
    /\ UNCHANGED <<envVars, ledgerVars, is_running, phase, sd, itemsLeft,
                   disk, sendCalls, firstGood>>
    /\ NoTick
    /\ NoLimit
    /\ UNCHANGED aside

\* --------------------------------------------------------------- download

\* _sync_download in the executor thread: yt-dlp writes the file ("ok"),
\* raises DownloadError ("error"), or returns a path under which no file is
\* ("missing").
SyncDownload(s) ==
    /\ s.pc = "fetching"
    /\ \E out \in {"ok", "error", "missing"} :
          /\ sweeps' = Replaced(s, [s EXCEPT !.pc = "fetched", !.res = out])
          /\ disk' = IF out = "ok" THEN disk \cup {Cur(s)} ELSE disk
    /\ NoItemEnd /\ NoSweepEnd
    /\ UNCHANGED <<envVars, ledgerVars, is_running, phase, sd, itemsLeft,
                   sendCalls, firstGood>>
    /\ NoTick
    /\ NoLimit
    /\ UNCHANGED aside

\* download() without its size check.
DownloadResultNoLimit(res, video_id, dk) ==
    IF res # "ok" \/ video_id \notin dk THEN "error" ELSE "ok"

\* download() after the executor call, lines 94-106: how the call ends for
\* the file system dk.  DownloadError, a failing stat() and
\* VideoSizeExceededError all leave as VideoDownloadError; the file is
\* unlinked only under DownloadError, which leaves final_path unset.
DownloadResult(res, video_id, dk) ==
    IF res # "ok" \/ video_id \notin dk THEN "error"
    ELSE IF media[video_id].size > MAX_FILE_SIZE_MB THEN "oversize"
    ELSE "ok"

\* AsyncTelegramPoster._validate_video.
ValidateVideo(video_id, dk) ==
    IF video_id \notin dk THEN "FileNotFoundError"
    ELSE IF media[video_id].ext \notin SUPPORTED_VIDEO_FORMATS THEN "ValueError"
    ELSE IF media[video_id].size > MAX_FILE_SIZE_MB THEN "ContentTooLargeError"
    ELSE "ok"

\* cleanup() that does not look at DELETE_LOCAL_COPY.
CleanupTargetsAll(dk) == dk

\* AsyncVideoDownloader.cleanup: every file of the download directory, when
\* DELETE_LOCAL_COPY is set.
CleanupTargets(dk) == IF DELETE_LOCAL_COPY THEN dk ELSE {}

\* send_video that never calls _safe_delete.
DeletesAfterSendNever == FALSE

\* AsyncTelegramPoster._safe_delete runs only under DELETE_LOCAL_COPY
\* (send_video, lines 136-137).
DeletesAfterSend == DELETE_LOCAL_COPY

Ended(r, fetch, sent, raised, recorded, pv, lf, dk) ==
    [valid |-> TRUE, id |-> Cur(r), fetch |-> fetch, sent |-> sent,
     raised |-> raised, receipts |-> r.msgs, recorded |-> recorded,
     inSet |-> Cur(r) \in pv, inLog |-> Cur(r) \in Range(lf),
     onDisk |-> Cur(r) \in dk, tried |-> r.chan, notices |-> r.texts,
     noticeFailed |-> FALSE]

\* send_video has returned its receipts (it raises for no destination):
\* _process_single_video calls save_processed_video, the item is over and
\* the for loop goes on.
SendVideoReturned(s, r, dk) ==
    \E writeError \in WriteErrors :
        LET sv == SaveProcessedVideo(ledgerFile, processed_videos, Cur(r),
                                     writeError)
            e == Ended(r, "ok", TRUE, FALSE, TRUE, sv.set, sv.file, dk)
        IN /\ ledgerFile' = sv.file
           /\ ledgerExists' = (ledgerExists \/ sv.wrote)
           /\ processed_videos' = sv.set
           /\ locksMade' = OneMoreLock(locksMade)
           /\ ended' = e
           /\ firstGood' = IF r.first /\ r.msgs >= 1 /\ sv.wrote
                           THEN firstGood \cup {Cur(r)} ELSE firstGood
           /\ Proceed(s, r, sv.set, sv.file, e)

\* The for loop of send_video after channel r.chan, with the file system
\* dk: video_path.stat() raises for every further channel once the file is
\* gone, which the loop's except clause logs; otherwise the next upload
\* starts and the coroutine suspends in it.
AfterChannel(s, r, dk) ==
    IF r.chan < NumChannels /\ Cur(r) \in dk
    THEN /\ sweeps' = Replaced(s,
                [r EXCEPT !.pc = "uploading", !.chan = @ + 1])
         /\ NoItemEnd /\ NoSweepEnd
         /\ UNCHANGED <<ledgerVars, firstGood>>
    ELSE SendVideoReturned(s, r, dk)

\* The executor call of download() is over and _process_single_video runs
\* on: the size check; on failure _handle_download_failure up to its
\* send_text call; on success _generate_caption and send_video up to the
\* first upload (the caption is built from the candidate's fields and
\* touches nothing else).  ValueError and FileNotFoundError of _validate_video are
\* caught only in process_videos (line 156), which ends the sweep;
\* ContentTooLargeError goes to _handle_posting_failure and its cleanup().
DownloadReturn(s) ==
    LET r == s
        v == Cur(r)
        fetch == DownloadResult(r.res, v, disk)
        valid == ValidateVideo(v, disk)
        r2 == [r EXCEPT !.send = @ + 1, !.first = (sendCalls[v] = 0),
                        !.chan = 0, !.msgs = 0]
    IN
    /\ r.pc = "fetched"
    /\ IF fetch # "ok"
       THEN /\ sweeps' = Replaced(s, [r EXCEPT !.pc = "notifying",
                                                !.res = fetch,
                                                !.texts = @ + 1])
            /\ NoItemEnd /\ NoSweepEnd
            /\ UNCHANGED <<ledgerVars, disk, sendCalls, firstGood>>
       ELSE /\ sendCalls' = [sendCalls EXCEPT ![v] = @ + 1]
            /\ IF valid = "ok"
               THEN /\ AfterChannel(s, r2, disk)
                    /\ UNCHANGED disk
               ELSE IF valid = "ContentTooLargeError"
               THEN LET dk == disk \ CleanupTargets(disk)
                        e == Ended(r2, "ok", TRUE, TRUE, FALSE,
                                   processed_videos, ledgerFile, dk)
                    IN /\ disk' = dk
                       /\ ended' = e
                       /\ Proceed(s, r2, processed_videos, ledgerFile, e)
                       /\ UNCHANGED <<ledgerVars, firstGood>>
               ELSE LET e == Ended(r2, "ok", TRUE, TRUE, FALSE,
                                   processed_videos, ledgerFile, disk)
                    IN /\ ended' = e
                       /\ SweepEnd(s, r2, processed_videos, ledgerFile, e)
                       /\ UNCHANGED <<ledgerVars, disk, firstGood>>
    /\ UNCHANGED <<envVars, is_running, phase, sd, itemsLeft>>
    /\ NoTick
    /\ NoLimit
    /\ UNCHANGED aside

\* ------------------------------------------------------------- send_video

\* What the bot answers to an upload: a message, RetryAfter (flood control,
\* with the seconds to wait), or another exception.
UploadOutcomes == {"ok", "RetryAfter", "error"}

\* send_video, lines 139-140: the except clause of the channel loop after an
\* upload of channel chan raised RetryAfter.  It logs, and the for loop takes
\* the next channel (0: there is none, send_video returns): no sleep, no
\* second upload to chan (the retries parameter is never read).
AfterRetryAfter(chan, more) ==
    [valid |-> TRUE, chan |-> chan, slept |-> FALSE,
     next |-> IF more THEN chan + 1 ELSE 0]

\* An upload (_direct_upload or _stream_upload) ends: with a message, which
\* is appended and followed by _safe_delete when DELETE_LOCAL_COPY is set,
\* or with an exception, which the loop logs.
UploadDone(s) ==
    LET r == s IN
    /\ r.pc = "uploading"
    /\ \E out \in UploadOutcomes :
          LET ok == (out = "ok") IN
          /\ IF ok /\ DeletesAfterSend
             THEN /\ sweeps' = Replaced(s, [r EXCEPT !.pc = "unlinking",
                                                      !.msgs = @ + 1])
                  /\ NoItemEnd /\ NoSweepEnd
                  /\ UNCHANGED <<ledgerVars, firstGood>>
             ELSE AfterChannel(s, [r EXCEPT !.msgs = IF ok THEN @ + 1 ELSE @],
                               disk)
          /\ limited' = IF out = "RetryAfter"
                        THEN AfterRetryAfter(r.chan,
                                 r.chan < NumChannels /\ Cur(r) \in disk)
                        ELSE NoLimited
    /\ UNCHANGED <<envVars, is_running, phase, sd, itemsLeft, disk,
                   sendCalls>>
    /\ NoTick
    /\ UNCHANGED aside

\* _safe_delete: path.unlink in a thread; an error is logged.
SafeDelete(s) ==
    LET r == s IN
    /\ r.pc = "unlinking"
    /\ \E unlinkError \in WriteErrors :
          /\ disk' = IF unlinkError THEN disk ELSE disk \ {Cur(r)}
          /\ AfterChannel(s, r, disk')
    /\ UNCHANGED <<envVars, is_running, phase, sd, itemsLeft,
                   sendCalls>>
    /\ NoTick
    /\ NoLimit
    /\ UNCHANGED aside

\* ------------------------------------------- _handle_download_failure

\* The send_text call of _handle_download_failure is over: it returned its
\* receipts, at most one per channel, or it raised, which the handler logs.
\* Either way the item is over and the for loop goes on.
SendTextDone(s) ==
    LET r == s IN
    /\ r.pc = "notifying"
    /\ \E raised \in BOOLEAN :
       \E n \in IF raised THEN {0} ELSE 0..NumChannels :
          LET e == [Ended([r EXCEPT !.msgs = n], r.res, FALSE, FALSE, FALSE,
                          processed_videos, ledgerFile, disk)
                        EXCEPT !.noticeFailed = raised]
          IN /\ ended' = e
             /\ Proceed(s, r, processed_videos, ledgerFile, e)
    /\ UNCHANGED <<envVars, ledgerVars, is_running, phase, sd,
                   itemsLeft, disk, sendCalls, firstGood>>
    /\ NoTick
    /\ NoLimit
    /\ UNCHANGED aside

\* --------------------------------------------------------------- shutdown

\* SIGINT/SIGTERM: the handler's task runs shutdown() up to the
\* scheduler.shutdown thread.
ShutdownSignal ==
    /\ phase = "started"
    /\ sd.pc = "none"
    /\ is_running' = FALSE
    /\ sd' = [sd EXCEPT !.pc = "sched"]
    /\ NoItemEnd /\ NoSweepEnd
    /\ UNCHANGED <<envVars, ledgerVars, phase, itemsLeft, sweeps, disk,
                   sendCalls, firstGood>>
    /\ NoTick
    /\ NoLimit
    /\ UNCHANGED aside

\* scheduler.shutdown is over; downloader.cleanup lists the directory and
\* starts unlinking.
SchedulerShutdown ==
    /\ phase = "started"
    /\ sd.pc = "sched"
    /\ sd' = IF CleanupTargets(disk) = {}
             THEN [pc |-> "done", todo |-> {}]
             ELSE [pc |-> "cleanup", todo |-> CleanupTargets(disk)]
    /\ NoItemEnd /\ NoSweepEnd
    /\ UNCHANGED <<envVars, ledgerVars, is_running, phase, itemsLeft, sweeps,
                   disk, sendCalls, firstGood>>
    /\ NoTick
    /\ NoLimit
    /\ UNCHANGED aside

\* cleanup: one file.unlink in a thread; an error is logged.
CleanupUnlink ==
    /\ phase = "started"
    /\ sd.pc = "cleanup"
    /\ \E f \in sd.todo :
          /\ \E unlinkError \in WriteErrors :
                disk' = IF unlinkError THEN disk ELSE disk \ {f}
          /\ sd' = IF sd.todo = {f}
                   THEN [pc |-> "done", todo |-> {}]
                   ELSE [sd EXCEPT !.todo = @ \ {f}]
    /\ NoItemEnd /\ NoSweepEnd
    /\ UNCHANGED <<envVars, ledgerVars, is_running, phase, itemsLeft, sweeps,
                   sendCalls, firstGood>>
    /\ NoTick
    /\ NoLimit
    /\ UNCHANGED aside

\* main() leaves its loop once is_running is false and asyncio.run cancels
\* every task still pending: the sweeps in flight and shutdown() itself.
MainExit ==
    /\ phase = "started"
    /\ ~is_running
    /\ phase' = "stopped"
    /\ sweeps' = EmptyBag
    /\ sd' = [pc |-> "done", todo |-> {}]
    /\ NoItemEnd /\ NoSweepEnd
    /\ UNCHANGED <<envVars, ledgerVars, is_running, itemsLeft, disk,
                   sendCalls, firstGood>>
    /\ NoTick
    /\ NoLimit
    /\ UNCHANGED aside

\* ------------------------------------------------------------------- Next

Next ==
    \/ Startup
    \/ TickStart
    \/ TickDropped
    \/ TickNotRunning
    \/ \E s \in DOMAIN sweeps : SearchDone(s)
    \/ \E s \in DOMAIN sweeps : SearchFailed(s)
    \/ \E s \in DOMAIN sweeps : SyncDownload(s)
    \/ \E s \in DOMAIN sweeps : DownloadReturn(s)
    \/ \E s \in DOMAIN sweeps : UploadDone(s)
    \/ \E s \in DOMAIN sweeps : SafeDelete(s)
    \/ \E s \in DOMAIN sweeps : SendTextDone(s)
    \/ ShutdownSignal
    \/ SchedulerShutdown
    \/ CleanupUnlink
    \/ MainExit

Spec == Init /\ [][Next]_vars

SpecFaults == InitFaults /\ [][Next]_vars

SpecLedgerFaults == InitLedgerFaults /\ [][Next]_vars

\* ------------------------------------------------ the ledger file as text

\* The variables of the pipeline, which the runs below leave alone.
pipeline == <<envVars, ledgerVars, is_running, phase, sd, itemsLeft, sweeps,
              disk, sendCalls, firstGood, ended, swept, tick, loaded,
              limited>>

\* The pipeline before startup, in one environment.
Parked ==
    /\ InitPipeline
    /\ fsFaults = FALSE
    /\ DELETE_LOCAL_COPY /\ ~ledgerExists
    /\ media = [i \in VideoIds |-> [size |-> 5, ext |-> "mp4"]]

\* Identifiers as f"{video['owner_id']}_{video['id']}" writes them, one
\* character per element: two decimal integers around an underscore (the
\* owner of a community video is negative).
IdTexts == { <<"1", "_", "1">>, <<"1", "_", "1", "2">>,
             <<"-", "1", "_", "1">> }

\* The line boundaries of str.splitlines that the model's alphabet has.
LineBreaks == {"\n", "\r"}

\* f.write(f"{video_id}\n") without the line feed.
WriteLineBare(text, id) == text \o id

\* f.write(f"{video_id}\n") on a file opened with mode 'a'.
WriteLine(text, id) == text \o id \o <<"\n">>

\* The position of the first line boundary of text from k on (Len + 1 when
\* there is none).
RECURSIVE FirstBreak(_, _)
FirstBreak(text, k) ==
    IF k > Len(text) \/ text[k] \in LineBreaks THEN k
    ELSE FirstBreak(text, k + 1)

\* str.splitlines(): the lines without their boundaries; "\r\n" is one
\* boundary, and a boundary at the end opens no further line.
RECURSIVE SplitLines(_)
SplitLines(text) ==
    IF text = <<>> THEN <<>>
    ELSE LET k == FirstBreak(text, 1)
             w == IF /\ k < Len(text)
                     /\ text[k] = "\r" /\ text[k + 1] = "\n"
                  THEN 2 ELSE 1
         IN <<SubSeq(text, 1, k - 1)>>
                \o SplitLines(SubSeq(text, k + w, Len(text)))

\* load_processed_videos, line 59: set(content.splitlines()).
ReadLedger(text) == Range(SplitLines(text))

\* A process that starts on an empty ledger file.
RtStart ==
    [pc |-> "open", text |-> <<>>, written |-> {}, mem |-> {}, saves |-> 0]

InitLedger == Parked /\ st = StIdle /\ rt = RtStart /\ cl = ClNew

\* save_processed_video(id) succeeds: the line is appended and id added to
\* the set.
RtSave(id) ==
    /\ rt.pc \in {"open", "loaded"}
    /\ rt.saves < MaxSaves
    /\ rt' = [pc |-> "open", text |-> WriteLine(rt.text, id),
              written |-> rt.written \cup {id}, mem |-> rt.mem \cup {id},
              saves |-> rt.saves + 1]
    /\ UNCHANGED <<pipeline, st, cl>>

\* The process is started anew and load_processed_videos reads the file.
RtLoad ==
    /\ rt.pc = "open"
    /\ rt' = [rt EXCEPT !.pc = "loaded", !.mem = ReadLedger(rt.text)]
    /\ UNCHANGED <<pipeline, st, cl>>

NextLedger ==
    \/ \E id \in IdTexts : RtSave(id)
    \/ RtLoad

SpecLedger == InitLedger /\ [][NextLedger]_vars

\* -------------------------------------------------------------- send_text

\* The seconds a RetryAfter may carry.
Waits == {2, 5}

\* What the awaited bot.send_message ends with: a message, one of the
\* aiogram exceptions the loop names, or any other exception.
Answers ==
    [kind : {"ok", "ChatNotFound", "NetworkError", "TelegramAPIError",
             "other"}, timeout : {0}]
        \cup [kind : {"RetryAfter"}, timeout : Waits]

\* send_text(message) has been called with the default channels and
\* retries, and its first send_message is in flight.
StCalled ==
    [pc |-> "sending", channel |-> 1, attempt |-> 0, messages |-> <<>>,
     hist |-> [c \in Channels |-> <<>>],
     sleeps |-> [c \in Channels |-> <<>>]]

InitSendText == Parked /\ rt = RtIdle /\ st = StCalled /\ cl = ClNew

\* `for channel in channels` takes its next element, or is over and
\* send_text returns messages.
NextChannel(r) ==
    IF r.channel < NumChannels
    THEN [r EXCEPT !.pc = "sending", !.channel = @ + 1, !.attempt = 0]
    ELSE [r EXCEPT !.pc = "returned"]

\* An attempt loop without an end.
NextAttemptNoCeiling(r) == [r EXCEPT !.pc = "sending", !.attempt = @ + 1]

\* `for attempt in range(retries)` takes its next element, or is over.
NextAttempt(r) ==
    IF r.attempt + 1 < retries
    THEN [r EXCEPT !.pc = "sending", !.attempt = @ + 1]
    ELSE NextChannel(r)

\* A loop that leaves the attempts of a channel only after a message.
BreaksOnlyOnSuccess(kind) == kind = "ok"

\* The answers after which the body of the attempt loop executes `break`:
\* a message (line 97), ChatNotFound and NetworkError (lines 100-102).
Breaks(kind) == kind \in {"ok", "ChatNotFound", "NetworkError"}

\* _handle_retry that does not sleep.
HandleRetryNoSleep(timeout) == 0

\* _handle_retry: the seconds of asyncio.sleep(error.timeout).
HandleRetry(timeout) == timeout

Last(seq) == seq[Len(seq)]

\* bot.send_message ends and the loop body runs to its next suspension: a
\* message is appended; RetryAfter goes to _handle_retry; the other aiogram
\* errors are logged, with or without break; any other exception leaves
\* send_text.
StAnswer ==
    /\ st.pc = "sending"
    /\ \E a \in Answers :
          LET r == [st EXCEPT !.hist[st.channel] = Append(@, a)]
              r2 == IF a.kind = "ok"
                    THEN [r EXCEPT !.messages = Append(@, st.channel)]
                    ELSE r
          IN
          st' = IF a.kind = "RetryAfter" THEN [r EXCEPT !.pc = "sleeping"]
                ELSE IF a.kind = "other" THEN [r EXCEPT !.pc = "raised"]
                ELSE IF Breaks(a.kind) THEN NextChannel(r2)
                ELSE NextAttempt(r2)
    /\ UNCHANGED <<pipeline, rt, cl>>

\* The sleep of _handle_retry is over; the attempt loop goes on.
StWake ==
    /\ st.pc = "sleeping"
    /\ st' = NextAttempt([st EXCEPT !.sleeps[st.channel] =
                 Append(@, HandleRetry(Last(st.hist[st.channel]).timeout))])
    /\ UNCHANGED <<pipeline, rt, cl>>

NextSendText == StAnswer \/ StWake

SpecSendText == InitSendText /\ [][NextSendText]_vars

\* ------------------------------------------------ _handle_posting_failure

\* _handle_posting_failure(video_path): when the path exists, cleanup(),
\* which unlinks what it finds in the download directory.
HandlePostingFailure(video_id, dk) ==
    IF video_id \in dk THEN dk \ CleanupTargets(dk) ELSE dk

\* A sweep whose send_video call for its only candidate raised
\* TelegramPosterError: _process_single_video is at its except clause,
\* lines 185-187.
FailedSweep(video) ==
    [NewSweep EXCEPT !.pc = "posting_failed", !.videos = <<video>>,
                     !.idx = 1, !.dl = 1, !.send = 1, !.first = TRUE,
                     !.res = "ok"]

\* A sweep that is downloading its only candidate (chan = 0) or uploading
\* it to channel chan.
BusySweep(video, chan) ==
    [NewSweep EXCEPT !.pc = IF chan = 0 THEN "fetching" ELSE "uploading",
                     !.videos = <<video>>, !.idx = 1, !.dl = 1,
                     !.send = IF chan = 0 THEN 0 ELSE 1, !.chan = chan,
                     !.res = IF chan = 0 THEN "none" ELSE "ok"]

\* Two sweeps overlap on different videos: _validate_video has found the
\* file of one over the limit and its send_video call has raised
\* ContentTooLargeError, the other is in its download or in an upload.
InitPostingFailure ==
    /\ DELETE_LOCAL_COPY \in BOOLEAN
    /\ media \in [VideoIds -> Media]
    /\ fsFaults = FALSE
    /\ ledgerExists = FALSE /\ ledgerFile = <<>> /\ processed_videos = {}
    /\ locksMade = "none" /\ loaded = "missing"
    /\ is_running = TRUE /\ phase = "started"
    /\ sd = [pc |-> "none", todo |-> {}]
    /\ itemsLeft = 0
    /\ \E a \in Videos : \E b \in Videos \ {a} : \E chan \in 0..NumChannels :
          /\ sweeps = SetToBag({FailedSweep(a)})
                          (+) SetToBag({BusySweep(b, chan)})
          /\ disk = {VideoId(a)}
                        \cup (IF chan = 0 THEN {} ELSE {VideoId(b)})
          /\ sendCalls = [i \in VideoIds |->
                            IF i = VideoId(a) \/ chan > 0 THEN 1 ELSE 0]
          /\ ValidateVideo(VideoId(a), disk) = "ContentTooLargeError"
          /\ chan > 0 => ValidateVideo(VideoId(b), disk) = "ok"
    /\ firstGood = {} /\ ended = NoEnded /\ swept = NoSwept
    /\ tick = "none" /\ limited = NoLimited
    /\ st = StIdle /\ rt = RtIdle /\ cl = ClNew

\* The except clause of lines 185-187 runs _handle_posting_failure; the item
\* is over and the for loop goes on.
PostingFailure(s) ==
    /\ s.pc = "posting_failed"
    /\ LET dk == HandlePostingFailure(Cur(s), disk)
           e == Ended(s, "ok", TRUE, TRUE, FALSE, processed_videos,
                      ledgerFile, dk)
       IN /\ disk' = dk
          /\ ended' = e
          /\ Proceed(s, s, processed_videos, ledgerFile, e)
    /\ UNCHANGED <<envVars, ledgerVars, is_running, phase, sd, itemsLeft,
                   sendCalls, firstGood>>
    /\ NoTick
    /\ NoLimit
    /\ UNCHANGED aside

NextPostingFailure ==
    \/ \E s \in DOMAIN sweeps : PostingFailure(s)
    \/ \E s \in DOMAIN sweeps : SyncDownload(s)
    \/ \E s \in DOMAIN sweeps : DownloadReturn(s)
    \/ \E s \in DOMAIN sweeps : UploadDone(s)
    \/ \E s \in DOMAIN sweeps : SafeDelete(s)
    \/ \E s \in DOMAIN sweeps : SendTextDone(s)

SpecPostingFailure == InitPostingFailure /\ [][NextPostingFailure]_vars

\* ------------------------------------- the clients shared by the sweeps

\* The application has started (is_running is set and the job is
\* scheduled); the sweeps are followed only through their `async with`.
InitClients == Parked /\ st = StIdle /\ rt = RtIdle /\ cl = ClNew

\* Instance i is inside the block of `async with self.vk_parser,
\* self.tg_poster`.
Inside(c, i) == c.inst[i].pc # "idle"

\* The two __aexit__ calls of an instance that leaves the block:
\* tg_poster's closes the one bot, vk_parser's closes whatever self.session
\* refers to at that moment.
ClExit(c, i) ==
    [c EXCEPT !.botCloses = @ + 1,
              !.closed = @ \cup {c.session},
              !.inst[i] = [pc |-> "idle", own |-> 0]]

\* A tick starts process_videos in a free slot: is_running is set, and the
\* two __aenter__ calls run: vk_parser's assigns a new ClientSession to
\* self.session, tg_poster's returns self.  search_videos sends its request
\* on that session and the coroutine suspends.
ClEnter(i) ==
    /\ is_running
    /\ ~Inside(cl, i)
    /\ cl.made < MaxEnters
    /\ cl' = [cl EXCEPT !.made = @ + 1, !.session = cl.made + 1,
                        !.inst[i] = [pc |-> "searching",
                                     own |-> cl.made + 1]]
    /\ UNCHANGED <<pipeline, st, rt>>

\* search_videos is over: with candidates the for loop starts on them;
\* with none, or with VKParserError, the instance leaves the block.
ClSearched(i) ==
    /\ cl.inst[i].pc = "searching"
    /\ \E out \in {"videos", "none", "VKParserError"} :
          cl' = IF out = "videos"
                THEN [cl EXCEPT !.inst[i].pc = "publishing"]
                ELSE ClExit(cl, i)
    /\ UNCHANGED <<pipeline, st, rt>>

\* The for loop is over, or an exception left it: the instance leaves the
\* block.
ClLoopOver(i) ==
    /\ cl.inst[i].pc = "publishing"
    /\ cl' = ClExit(cl, i)
    /\ UNCHANGED <<pipeline, st, rt>>

NextClients ==
    \/ \E i \in Slots : ClEnter(i)
    \/ \E i \in Slots : ClSearched(i)
    \/ \E i \in Slots : ClLoopOver(i)

SpecClients == InitClients /\ [][NextClients]_vars

\* ================================================================ claims

Count(seq, x) == Cardinality({k \in 1..Len(seq) : seq[k] = x})

InPipeline(s) ==
    s.pc \in {"fetching", "fetched", "uploading", "unlinking", "notifying"}

\* C1: an identifier whose first send_video call delivered and was recorded
\* is never handed to send_video a second time in the run, whatever the
\* overlap of the sweeps.
C1_AtMostOncePublish == \A i \in firstGood : sendCalls[i] <= 1

\* C2: a sweep never has in its pipeline (download, send_video, notice) a
\* candidate whose identifier was in processed_videos when the for loop
\* examined it, and a finished sweep has started no more downloads than it
\* saw candidates unknown at its start, and no more send_video calls than
\* downloads.
C2_KnownIsSkipped ==
    /\ \A s \in DOMAIN sweeps : InPipeline(s) => ~s.known
    /\ swept.valid =>
          /\ swept.dl <= Cardinality({k \in 1..Len(swept.videos) :
                            VideoId(swept.videos[k]) \notin swept.led0})
          /\ swept.send <= swept.dl

\* A sweep that ran alone got the same unknown identifier twice, recorded it
\* at the first position and skipped it at the second.
C2_Witness ==
    /\ swept.valid /\ swept.solo
    /\ Len(swept.videos) = 2
    /\ swept.videos[1] = swept.videos[2]
    /\ VideoId(swept.videos[1]) \notin swept.led0
    /\ VideoId(swept.videos[1]) \in swept.ledgerEnd
    /\ swept.dl = 1

\* C3: an item whose send_video call failed for every destination (it
\* returned no receipt) ends with its identifier in neither processed_videos nor the ledger file.
C3_NoDeliveryNoRecord ==
    (ended.valid /\ ended.sent /\ ~ended.raised /\ ended.receipts = 0)
        => (~ended.inSet /\ ~ended.inLog)

\* C4: an item whose download succeeded and whose send_video call returned
\* at least one receipt ends with its identifier in processed_videos and in
\* the ledger file.
C4_DeliveredIsRecorded ==
    (ended.valid /\ ended.fetch = "ok" /\ ended.sent /\ ~ended.raised
        /\ ended.receipts >= 1)
        => (ended.inSet /\ ended.inLog)

\* One of the two destinations received the video, the other did not.
C4_Witness ==
    /\ ended.valid /\ ended.sent /\ ended.receipts = 1
    /\ NumChannels > 1
    /\ ended.inSet /\ ended.inLog

\* C5: an item whose artifact is larger than MAX_FILE_SIZE_MB ends with its
\* identifier in neither processed_videos nor the ledger file, and
\* send_video was never called for it.
C5_OversizeNotCommitted ==
    (ended.valid /\ media[ended.id].size > MAX_FILE_SIZE_MB)
        => /\ ended.fetch # "ok"
           /\ ~ended.sent /\ ~ended.recorded
           /\ ~ended.inSet /\ ~ended.inLog
           /\ sendCalls[ended.id] = 0

C5_Witness ==
    /\ ended.valid /\ ended.fetch = "oversize"
    /\ media[ended.id].size > MAX_FILE_SIZE_MB

\* C6: with DELETE_LOCAL_COPY set, an item whose artifact is larger than
\* MAX_FILE_SIZE_MB ends with its file gone from the download directory.
C6_OversizeDeleted ==
    (ended.valid /\ ended.fetch = "oversize" /\ DELETE_LOCAL_COPY)
        => ~ended.onDisk

\* C7: with DELETE_LOCAL_COPY set, an item whose send_video call failed for
\* every destination (it returned no receipt) ends with its file gone from the download directory.
C7_FailedPublishCleansUp ==
    (ended.valid /\ ended.sent /\ ~ended.raised /\ ended.receipts = 0
        /\ DELETE_LOCAL_COPY)
        => ~ended.onDisk

\* The sweep of C8: it ran alone with DELETE_LOCAL_COPY set, its search
\* returned a recorded identifier and then a new one, and the new one was
\* downloaded and delivered.
C8_Scenario ==
    /\ swept.valid /\ swept.solo /\ DELETE_LOCAL_COPY
    /\ Len(swept.videos) = 2
    /\ VideoId(swept.videos[1]) \in swept.led0
    /\ VideoId(swept.videos[2]) \notin swept.led0
    /\ swept.last.valid
    /\ swept.last.id = VideoId(swept.videos[2])
    /\ swept.last.fetch = "ok"
    /\ swept.last.sent /\ swept.last.receipts >= 1

\* C8: such a sweep made one download call and one send_video call, left
\* the ledger (set and file) at the old set plus the new identifier, and
\* left no file of the new item.
C8_SuccessPath ==
    C8_Scenario =>
        /\ swept.dl = 1 /\ swept.send = 1
        /\ swept.ledgerEnd = swept.led0 \cup {VideoId(swept.videos[2])}
        /\ swept.logEnd = swept.led0 \cup {VideoId(swept.videos[2])}
        /\ ~swept.last.onDisk

C8_Witness == C8_Scenario /\ swept.dl = 1 /\ ~swept.last.onDisk

\* C9: with DELETE_LOCAL_COPY unset no step removes a file from the
\* download directory.
C9_RetentionKeepsFiles == [][~DELETE_LOCAL_COPY => disk \subseteq disk']_vars

\* shutdown() ran its cleanup() over a non-empty directory and the files are
\* still there.
C9_Witness ==
    /\ ~DELETE_LOCAL_COPY
    /\ phase = "started" /\ sd.pc = "done"
    /\ disk # {}

\* C10: from any ledger the program reaches, two save_processed_video calls
\* for i (no write error) leave i in the file and in the set, leave the
\* other members of the set as they were, and leave the old lines of the
\* file in place, followed only by lines i.
C10_RecordIdempotent ==
    \A i \in VideoIds :
        LET once == SaveProcessedVideo(ledgerFile, processed_videos, i, FALSE)
            twice == SaveProcessedVideo(once.file, once.set, i, FALSE)
        IN /\ Count(twice.file, i) >= 1
           /\ i \in twice.set
           /\ twice.set \ {i} = processed_videos \ {i}
           /\ Len(twice.file) >= Len(ledgerFile)
           /\ SubSeq(twice.file, 1, Len(ledgerFile)) = ledgerFile
           /\ \A k \in (Len(ledgerFile) + 1)..Len(twice.file) :
                 twice.file[k] = i

\* Two pipelines have recorded the same identifier: its line is in the file
\* twice and it is a member of the set.
C10_Witness ==
    \E i \in VideoIds :
        /\ Count(ledgerFile, i) >= 2
        /\ i \in processed_videos
        /\ ended.valid /\ ended.id = i /\ ended.recorded

\* C11: when load_processed_videos has read a file that began empty and
\* received only save_processed_video lines, the set it builds is exactly
\* the set of identifiers saved, duplicates counted once.
C11_LedgerRoundTrip ==
    rt.pc = "loaded" =>
        /\ rt.mem = rt.written
        /\ Cardinality(rt.mem) <= rt.saves

\* Three saves of two identifiers, one of them twice, were read back.
C11_Witness ==
    /\ rt.pc = "loaded"
    /\ rt.saves = 3
    /\ Cardinality(rt.written) = 2
    /\ Cardinality(rt.mem) = 2

\* C12: every ledger call of a run is guarded by one lock shared by all
\* callers (no second lock object is ever made), and an item that was
\* recorded ends with its identifier in the file and in the set.
C12_SingleSharedGuard ==
    /\ locksMade # "many"
    /\ (ended.valid /\ ended.recorded) => (ended.inSet /\ ended.inLog)

\* C13: an item whose save_processed_video call could not append to the
\* file (no line of the identifier is in it) ends, without an exception,
\* with its identifier in processed_videos.
C13_WriteErrorStillInSet ==
    (ended.valid /\ ended.recorded /\ ~ended.raised /\ ~ended.inLog)
        => ended.inSet

\* C14: startup always completes: it leaves the scheduler started and the
\* run flag set, with processed_videos empty when the file is missing or
\* could not be read, and holding the lines of the file otherwise.
C14_LoadNeverFails ==
    [][phase = "new" =>
          /\ phase' = "started" /\ is_running' /\ SchedulerUp'
          /\ loaded' \in {"missing", "error"} => processed_videos' = {}
          /\ loaded' = "ok" => processed_videos' = Range(ledgerFile)]_vars

\* The file held a line, reading it failed, and a tick has started a sweep
\* on the empty set.
C14_Witness ==
    /\ loaded = "error" /\ ledgerFile # <<>>
    /\ processed_videos = {}
    /\ tick = "started"

\* The answers h of a destination are k RetryAfter of w seconds and then a
\* message.
RateLimitedThenOk(h, k, w) ==
    /\ Len(h) = k + 1
    /\ \A i \in 1..k : h[i] = [kind |-> "RetryAfter", timeout |-> w]
    /\ h[k + 1].kind = "ok"

\* C15: a destination that answered send_text with RetryAfter(w) k times,
\* k below retries, and then with a message, has received the message
\* once, after k sleeps of w seconds each and k + 1 attempts, which is at
\* most retries.
C15_TextRetryAfterRateLimit ==
    st.pc # "idle" =>
        \A c \in Channels : \A k \in 0..(retries - 1) : \A w \in Waits :
            RateLimitedThenOk(st.hist[c], k, w) =>
                /\ Count(st.messages, c) = 1
                /\ st.sleeps[c] = [i \in 1..k |-> w]
                /\ k + 1 <= retries
                /\ (st.pc = "sending" => st.channel # c)

\* The last destination answered RetryAfter(2) twice and then took the
\* message: two sleeps of 2 seconds, third attempt.
C15_Witness ==
    /\ st.pc = "returned"
    /\ RateLimitedThenOk(st.hist[NumChannels], 2, 2)
    /\ st.sleeps[NumChannels] = <<2, 2>>
    /\ Count(st.messages, NumChannels) = 1

\* C16: an upload of send_video that a destination answers with RetryAfter
\* is followed by a sleep of the signalled duration and another upload to
\* the same destination.
C16_VideoRetryAfterRateLimit ==
    limited.valid => (limited.slept /\ limited.next = limited.chan)

FatalKinds == {"ChatNotFound", "NetworkError"}

\* C17: in send_text an answer ChatNotFound or NetworkError is the last
\* attempt at its destination (the only one when it is the first answer),
\* and the loop has gone on to the next destination, or has returned after
\* the last one.
C17_FatalAnswerEndsDestination ==
    st.pc # "idle" =>
        \A c \in Channels : \A i \in 1..Len(st.hist[c]) :
            st.hist[c][i].kind \in FatalKinds =>
                /\ i = Len(st.hist[c])
                /\ st.pc # "sleeping" \/ st.channel # c
                /\ IF c < NumChannels THEN st.channel > c
                   ELSE st.pc = "returned"

\* The first destination answered ChatNotFound and the second NetworkError,
\* each to its only attempt, and send_text returned no message.
C17_Witness ==
    /\ st.pc = "returned"
    /\ Len(st.hist[1]) = 1 /\ st.hist[1][1].kind = "ChatNotFound"
    /\ Len(st.hist[NumChannels]) = 1
    /\ st.hist[NumChannels][1].kind = "NetworkError"
    /\ st.messages = <<>>

\* C18: a publish call ends by returning, having attempted every
\* destination: send_video has started an upload for each channel when it
\* returns, and send_text never raises and has sent to each channel when
\* it returns.
C18_EveryDestinationAttempted ==
    /\ (ended.valid /\ ended.sent /\ ~ended.raised)
          => ended.tried = NumChannels
    /\ st.pc # "raised"
    /\ st.pc = "returned" => \A c \in Channels : st.hist[c] # <<>>

\* C19: never more than 3 process_videos instances run; a tick that finds
\* 3 running starts nothing, and an instance starts only in the step of a
\* tick, so the end of a sweep never runs a tick that was dropped.
C19_AtMostThreeSweeps ==
    [][/\ Running' <= 3
       /\ tick' = "dropped" => (Running = 3 /\ sweeps' = sweeps)
       /\ Running' > Running => tick' = "started"]_vars

\* A tick has just been dropped with three sweeps running.
C19_Witness == tick = "dropped" /\ Running = 3

\* C20: once is_running is false, no step puts a sweep into a search or
\* into the download of a further candidate.
C20_NoNewWorkAfterShutdown ==
    [][~is_running =>
          \A s \in DOMAIN sweeps' :
              s.pc \in {"searching", "fetching"} =>
                  CopiesIn(s, sweeps') <= CopiesIn(s, sweeps)]_vars

\* A sweep whose item is between the start of its download and the return
\* of send_video.
InFlight(s) == s.pc \in {"fetching", "fetched", "uploading", "unlinking"}

\* C21: after the shutdown signal, main() does not return while an item is
\* being fetched or published, and the cleanup() of shutdown() removes the
\* file of no item whose download or upload is still running.
C21_ShutdownWaitsForItems ==
    [][/\ phase' = "stopped" => \A s \in DOMAIN sweeps : ~InFlight(s)
       /\ (sd.pc = "cleanup" /\ sd' # sd /\ phase' = phase) =>
              \A s \in DOMAIN sweeps :
                  (InFlight(s) /\ Cur(s) \in disk) => Cur(s) \in disk']_vars

\* C22: the step in which a search ends with VKParserError ends that sweep
\* with no download and no send_video call made, changes neither
\* processed_videos nor the file nor the download directory, and leaves the
\* scheduler as it was, with room for the next tick to start a sweep.
C22_SearchFailureEndsSweep ==
    [][(swept'.valid /\ swept'.res = "VKParserError") =>
          /\ swept'.dl = 0 /\ swept'.send = 0 /\ swept'.videos = <<>>
          /\ UNCHANGED <<ledgerFile, processed_videos, disk, sendCalls>>
          /\ Running' = Running - 1
          /\ phase' = phase /\ sd' = sd /\ is_running' = is_running
          /\ SchedulerUp => (SchedulerUp' /\ Running' < max_instances)]_vars

\* A search has just failed while the ledger holds an identifier, and the
\* scheduler is up with the run flag set.
C22_Witness ==
    /\ swept.valid /\ swept.res = "VKParserError"
    /\ SchedulerUp /\ is_running
    /\ processed_videos # {}

\* C23: a sweep whose search succeeded ends only when its for loop is over:
\* every candidate after the last item it processed was skipped as known,
\* whatever error ended that item.
C23_ItemFailureIsIsolated ==
    (swept.valid /\ swept.res # "VKParserError") =>
        \A k \in (swept.idx + 1)..Len(swept.videos) :
            VideoId(swept.videos[k]) \in swept.ledgerEnd

C25_RecordBeforeDelete ==
    [][\A s \in DOMAIN sweeps :
          (s.pc = "unlinking" /\ Cur(s) \in disk /\ Cur(s) \notin disk'
              /\ CopiesIn(s, sweeps') < CopiesIn(s, sweeps)) =>
             (Cur(s) \in processed_videos
                 /\ Cur(s) \in Range(ledgerFile))]_vars

\* The item ended after its only download failed (no send_video call was
\* made for the identifier).
EndedFetchFailed == ended.valid /\ ended.fetch # "ok" /\ sendCalls[ended.id] = 0

\* The item ended after its only send_video call delivered to no
\* destination.
EndedPublishFailed ==
    /\ ended.valid /\ ended.sent /\ ended.receipts = 0
    /\ sendCalls[ended.id] = 1

\* C26: an item that ended in a failed download or a failed publication is
\* in neither processed_videos nor the ledger file, so that FirstUnknown of
\* a later sweep does not skip it.
C26_FailedItemStaysUnknown ==
    (EndedFetchFailed \/ EndedPublishFailed) =>
        (~ended.inSet /\ ~ended.inLog)

\* C27: an item whose downloaded file is over the limit ends after exactly
\* one send_text call of _handle_download_failure, whether or not that call
\* raised: no send_video call, no save_processed_video call, no exception
\* out of the item, and the step leaves the ledger file and
\* processed_videos as they were.
C27_OversizeGetsOneNotice ==
    [][(ended'.valid /\ media[ended'.id].size > MAX_FILE_SIZE_MB
            /\ ended'.fetch # "error") =>
          /\ ended'.fetch = "oversize"
          /\ ended'.notices = 1
          /\ ~ended'.sent /\ ~ended'.recorded /\ ~ended'.raised
          /\ UNCHANGED <<ledgerFile, processed_videos>>]_vars

\* The send_text call of the notice for an oversize file raised and the
\* sweep went on to its next candidate.
C27_Witness ==
    /\ ended.valid /\ ended.fetch = "oversize" /\ ended.noticeFailed
    /\ ended.notices = 1 /\ ~ended.inSet /\ ~ended.inLog
    /\ \E s \in DOMAIN sweeps : s.pc = "fetching" /\ s.idx = 2

\* The attempts of send_text on the channels 1..c.
RECURSIVE Attempts(_, _)
Attempts(hist, c) ==
    IF c = 0 THEN 0 ELSE Len(hist[c]) + Attempts(hist, c - 1)

\* A bound on the steps send_text has left.
Measure(r) ==
    IF r.pc \in {"returned", "raised"} THEN 0
    ELSE 2 * (retries * (NumChannels - r.channel) + (retries - r.attempt))
            - (IF r.pc = "sleeping" THEN 1 ELSE 0)

\* C28: whatever send_message answers, send_text makes at most `retries`
\* attempts per channel and at most retries * |channels| in all, and every
\* step of it lowers a non-negative measure, so it ends.
C28_SendTextTerminates ==
    [][/\ \A c \in Channels : Len(st'.hist[c]) <= retries
       /\ Attempts(st'.hist, NumChannels) <= retries * NumChannels
       /\ Measure(st') >= 0
       /\ Measure(st') < Measure(st)]_vars

\* send_text returned after every channel used up all its attempts.
C28_Witness ==
    /\ st.pc = "returned"
    /\ \A c \in Channels : Len(st.hist[c]) = retries
    /\ Attempts(st.hist, NumChannels) = retries * NumChannels

\* C29: _safe_delete after the delivery to a channel that is not the last
\* leaves the file in place for the uploads to the channels after it.
C29_FileKeptForLaterChannels ==
    [][\A s \in DOMAIN sweeps :
          (s.pc = "unlinking" /\ s.chan < NumChannels /\ Cur(s) \in disk
              /\ CopiesIn(s, sweeps') < CopiesIn(s, sweeps)) =>
             Cur(s) \in disk']_vars

\* C30: in every step processed_videos ends within the lines of the ledger
\* file and loses no identifier.
C30_SetMirrorsLedger ==
    [][/\ processed_videos' \subseteq Range(ledgerFile')
       /\ processed_videos \subseteq processed_videos']_vars

\* The file was loaded with a line in it and, with write errors possible,
\* an item was recorded on top.
C30_Witness ==
    /\ loaded = "ok" /\ fsFaults
    /\ Cardinality(processed_videos) >= 2
    /\ processed_videos \subseteq Range(ledgerFile)
    /\ ended.valid /\ ended.recorded /\ ended.inSet

\* C31: a step in which an instance leaves its `async with` block closes
\* the bot only when no other instance is inside its block, and closes no
\* session that an instance still inside its block has opened.
C31_NoCloseUnderAnotherSweep ==
    [][/\ cl'.botCloses > cl.botCloses =>
              \A j \in Slots : ~Inside(cl', j)
       /\ \A k \in cl'.closed \ cl.closed :
              \A j \in Slots : ~(Inside(cl', j) /\ cl'.inst[j].own = k)]_vars
====
